---- MODULE Spec2Model ----
(***************************************************************************)
(* A model of gorilla: the action orchestrator of cmd/gorilla/main.go and  *)
(* the download package (File, Get, Verify, IfNeeded).                     *)
(*                                                                         *)
(* Two specifications share the module.  Spec runs main() once over a      *)
(* bounded catalog and manifest set; the installer calls it makes are      *)
(* logged in `calls`.                                                      *)
(***************************************************************************)
EXTENDS Naturals, Sequences, FiniteSets, TLC

\* ------------------------------------------------------------------ bounds

\* The largest input of a run of main(): the number of manifest entries, plus
\* the number of names in their lists, plus the number of dependency names in
\* the catalog.
MaxInput == 4

\* ------------------------------------------------------- data (orchestrator)

\* Item names; "" is the empty name that the compile loops filter.
Names == {"", "A", "B", "C"}

\* The names that may be keys of the catalog map; "C" is a name that no
\* catalog of the model knows.
Keys == {"A", "B"}

\* The location a catalog entry of name n carries when it has one.
Url(n) == "http://x/" \o n

SeqsUpTo(S, n) == UNION {[1..k -> S] : k \in 0..n}

\* catalog.Item, reduced to the two fields main() reads.
Item(loc, deps) == [InstallerItemLocation |-> loc, Dependencies |-> deps]

\* The zero value of catalog.Item: what catalog[k] yields for an absent key.
ZeroItem == Item("", <<>>)

\* catalog[name] on a Go map: the entry, or the zero value when absent.
Lookup(cat, name) == IF name \in DOMAIN cat THEN cat[name] ELSE ZeroItem

\* manifest.Item, reduced to the three lists main() reads.
Entry(ins, unins, upd) == [Installs |-> ins, Uninstalls |-> unins, Updates |-> upd]

EntrySize(e) == Len(e.Installs) + Len(e.Uninstalls) + Len(e.Updates)

\* The manifest entries that hold at most n names.
Entries(n) ==
  UNION { UNION { { Entry(a, b, c) : c \in SeqsUpTo(Names, n - Len(a) - Len(b)) } :
                  b \in SeqsUpTo(Names, n - Len(a)) } :
          a \in SeqsUpTo(Names, n) }

\* The sequences of manifest entries of size at most n: an entry counts for
\* one, and so does each name in it.
RECURSIVE ManifestSeqs(_)
ManifestSeqs(n) ==
  IF n = 0 THEN { <<>> }
  ELSE { <<>> } \cup
       UNION { { <<e>> \o rest : rest \in ManifestSeqs(n - 1 - EntrySize(e)) } :
               e \in Entries(n - 1) }

\* What manifest.Get() may return.
ManifestSets == ManifestSeqs(MaxInput)

RECURSIVE NameCount(_)
NameCount(ms) == IF ms = <<>> THEN 0 ELSE EntrySize(Head(ms)) + NameCount(Tail(ms))

\* The catalogs over the keys ks whose entries list at most d dependency
\* names in total.  A key is absent, or present with or without a location.
RECURSIVE CatalogsOver(_, _)
CatalogsOver(ks, d) ==
  IF ks = {} THEN { <<>> }
  ELSE LET k == CHOOSE x \in ks : TRUE
       IN  CatalogsOver(ks \ {k}, d) \cup
           UNION { { (k :> Item(loc, deps)) @@ rest :
                       loc \in {"", Url(k)},
                       rest \in CatalogsOver(ks \ {k}, d - Len(deps)) } :
                   deps \in SeqsUpTo(Names, d) }

\* What catalog.Get() may return, given the manifests of the run.
Catalogs(ms) == CatalogsOver(Keys, MaxInput - Len(ms) - NameCount(ms))

\* ------------------------------------------------------ state (orchestrator)

VARIABLES
  catalog,     \* main.go:15   the catalog map
  manifests,   \* main.go:18   the manifest entries
  installs,    \* main.go:21   the compiled install list
  uninstalls,  \* main.go:21   the compiled uninstall list
  updates,     \* main.go:21   the compiled update list
  pc,          \* the loop main() is in: compile, install, uninstall, update, done
  idx,         \* the position of that loop's range
  dep,         \* the position of the dependency loop of main.go:47
  calls,       \* the installer invocations made so far, in order
  lastErr      \* whether the latest installer invocation returned an error

mainVars == <<catalog, manifests, installs, uninstalls, updates, pc, idx, dep,
              calls, lastErr>>

\* ---------------------------------------------------------- state (download)

VARIABLES
  downloadCfg, \* part_000:25  the package-level configuration
  fs,          \* the content of each local file, or Absent
  last,        \* the latest call: operation, arguments, result, events, and
               \* the file system before and after it
  prior        \* a check that came out true and that the caller means to
               \* repeat: operation, arguments, and the content it checked

dlVars == <<downloadCfg, fs, last, prior>>

vars == <<mainVars, dlVars>>


\* A variant of KeepInstall that forgets the location.
KeepInstallAnyLocation(cat, item) == item # ""

\* main.go:25  the condition under which an Installs name is kept.
KeepInstall(cat, item) ==
  item # "" /\ Lookup(cat, item).InstallerItemLocation # ""

\* A variant of KeepName that keeps the empty name too.
KeepNameAny(item) == TRUE

\* main.go:31, main.go:37  the condition under which an Uninstalls or
\* Updates name is kept.
KeepName(item) == item # ""

\* One installer invocation: the operation, the name main() looked up, and
\* the descriptor catalog[name] it passed.
Call(op, name, cat) == [op |-> op, name |-> name, item |-> Lookup(cat, name)]

\* The first loop at or after loop k, position i, that still has an element
\* to range over; a range over an exhausted or empty list falls through.
RECURSIVE Settle(_, _, _)
Settle(k, i, lens) ==
  IF k > 4 THEN [pc |-> "done", idx |-> 1]
  ELSE IF i <= lens[k]
       THEN [pc |-> <<"compile", "install", "uninstall", "update">>[k], idx |-> i]
       ELSE Settle(k + 1, 1, lens)

Halted == [pc |-> "done", idx |-> 1]

\* A variant of AfterCall that stops the run at the first error.
AfterCallHalting(err, next) == IF err THEN Halted ELSE next

\* Where main() continues after an installer invocation that returned err:
\* the returned error is discarded (main.go:48, 52, 58, 64).
AfterCall(err, next) == next

MainInit ==
  /\ manifests \in ManifestSets
  /\ catalog \in Catalogs(manifests)
  /\ installs = <<>>
  /\ uninstalls = <<>>
  /\ updates = <<>>
  /\ LET at == Settle(1, 1, <<Len(manifests), 0, 0, 0>>)
     IN  pc = at.pc /\ idx = at.idx
  /\ dep = 1
  /\ calls = <<>>
  /\ lastErr = FALSE

\* A variant of CompileEntry that uninstalls the names of an entry as soon as
\* it has read the entry, instead of listing them.
CompileEntryEager ==
  /\ pc = "compile"
  /\ LET manifestItem == manifests[idx]
         ins == installs \o SelectSeq(manifestItem.Installs,
                                      LAMBDA item : KeepInstall(catalog, item))
         unins == SelectSeq(manifestItem.Uninstalls, KeepName)
         upd == updates \o SelectSeq(manifestItem.Updates, KeepName)
         at == Settle(1, idx + 1, <<Len(manifests), Len(ins), 0, Len(upd)>>)
     IN  /\ installs' = ins
         /\ calls' = calls \o [i \in 1..Len(unins) |-> Call("Uninstall", unins[i], catalog)]
         /\ updates' = upd
         /\ pc' = at.pc
         /\ idx' = at.idx
  /\ UNCHANGED <<catalog, manifests, uninstalls, dep, lastErr>>
  /\ UNCHANGED dlVars

\* main.go:22-41  one iteration of the loop over the manifests.
CompileEntry ==
  /\ pc = "compile"
  /\ LET manifestItem == manifests[idx]
         ins == installs \o SelectSeq(manifestItem.Installs,
                                      LAMBDA item : KeepInstall(catalog, item))
         unins == uninstalls \o SelectSeq(manifestItem.Uninstalls, KeepName)
         upd == updates \o SelectSeq(manifestItem.Updates, KeepName)
         at == Settle(1, idx + 1, <<Len(manifests), Len(ins), Len(unins), Len(upd)>>)
     IN  /\ installs' = ins
         /\ uninstalls' = unins
         /\ updates' = upd
         /\ pc' = at.pc
         /\ idx' = at.idx
  /\ UNCHANGED <<catalog, manifests, dep, calls, lastErr>>
  /\ UNCHANGED dlVars

Lens == <<Len(manifests), Len(installs), Len(uninstalls), Len(updates)>>

\* The installer returns err; main() goes on at `next`.
Returned(err, next) ==
  LET at == AfterCall(err, next)
  IN  /\ pc' = at.pc
      /\ idx' = at.idx
      /\ lastErr' = err

\* A variant of InstallDependency that leaves out a dependency the installer
\* was already called for.
InstallDependencyOnce ==
  /\ pc = "install"
  /\ LET deps == Lookup(catalog, installs[idx]).Dependencies
     IN  /\ dep <= Len(deps)
         /\ calls' = IF \E i \in 1..Len(calls) : calls[i].name = deps[dep]
                     THEN calls
                     ELSE Append(calls, Call("Install", deps[dep], catalog))
         /\ \E err \in BOOLEAN :
              /\ Returned(err, [pc |-> "install", idx |-> idx])
              /\ dep' = dep + 1
  /\ UNCHANGED <<catalog, manifests, installs, uninstalls, updates>>
  /\ UNCHANGED dlVars

\* A variant of InstallDependency that installs the dependencies of the
\* dependency before the dependency.
InstallDependencyDeep ==
  /\ pc = "install"
  /\ LET deps == Lookup(catalog, installs[idx]).Dependencies
     IN  /\ dep <= Len(deps)
         /\ LET inner == Lookup(catalog, deps[dep]).Dependencies
            IN  calls' = calls \o [i \in 1..Len(inner) |-> Call("Install", inner[i], catalog)]
                               \o <<Call("Install", deps[dep], catalog)>>
         /\ \E err \in BOOLEAN :
              /\ Returned(err, [pc |-> "install", idx |-> idx])
              /\ dep' = dep + 1
  /\ UNCHANGED <<catalog, manifests, installs, uninstalls, updates>>
  /\ UNCHANGED dlVars

\* A variant of InstallDependency that passes over a dependency that would
\* not be kept as an Installs name.
InstallDependencyFiltered ==
  /\ pc = "install"
  /\ LET deps == Lookup(catalog, installs[idx]).Dependencies
     IN  /\ dep <= Len(deps)
         /\ calls' = IF KeepInstall(catalog, deps[dep])
                     THEN Append(calls, Call("Install", deps[dep], catalog))
                     ELSE calls
         /\ \E err \in BOOLEAN :
              /\ Returned(err, [pc |-> "install", idx |-> idx])
              /\ dep' = dep + 1
  /\ UNCHANGED <<catalog, manifests, installs, uninstalls, updates>>
  /\ UNCHANGED dlVars

\* main.go:46-49  installer.Install(catalog[dependency]) for the next
\* dependency of installs[idx].
InstallDependency ==
  /\ pc = "install"
  /\ LET deps == Lookup(catalog, installs[idx]).Dependencies
     IN  /\ dep <= Len(deps)
         /\ calls' = Append(calls, Call("Install", deps[dep], catalog))
         /\ \E err \in BOOLEAN :
              /\ Returned(err, [pc |-> "install", idx |-> idx])
              /\ dep' = IF AfterCall(err, [pc |-> "install", idx |-> idx]).pc = "install"
                        THEN dep + 1 ELSE 1
  /\ UNCHANGED <<catalog, manifests, installs, uninstalls, updates>>
  /\ UNCHANGED dlVars

\* main.go:52  installer.Install(catalog[item]) once the dependencies of
\* installs[idx] are through.
InstallItem ==
  /\ pc = "install"
  /\ dep > Len(Lookup(catalog, installs[idx]).Dependencies)
  /\ calls' = Append(calls, Call("Install", installs[idx], catalog))
  /\ \E err \in BOOLEAN : Returned(err, Settle(2, idx + 1, Lens))
  /\ dep' = 1
  /\ UNCHANGED <<catalog, manifests, installs, uninstalls, updates>>
  /\ UNCHANGED dlVars

\* main.go:56-59  installer.Uninstall(catalog[item]).
UninstallItem ==
  /\ pc = "uninstall"
  /\ calls' = Append(calls, Call("Uninstall", uninstalls[idx], catalog))
  /\ \E err \in BOOLEAN : Returned(err, Settle(3, idx + 1, Lens))
  /\ UNCHANGED <<catalog, manifests, installs, uninstalls, updates, dep>>
  /\ UNCHANGED dlVars

\* main.go:62-65  installer.Update(catalog[item]).
UpdateItem ==
  /\ pc = "update"
  /\ calls' = Append(calls, Call("Update", updates[idx], catalog))
  /\ \E err \in BOOLEAN : Returned(err, Settle(4, idx + 1, Lens))
  /\ UNCHANGED <<catalog, manifests, installs, uninstalls, updates, dep>>
  /\ UNCHANGED dlVars

\* --------------------------------------------------------- data (download)

\* The number of distinct byte values a file or a response body is made of.
MaxByte == 2

\* Strings are sequences of characters.  The characters a path or url is
\* made of: "/" separates segments, the others are segment characters.
Slash == "/"

\* File and body contents: the empty content and the contents of one byte.
Bytes == 1..MaxByte
Contents == {<<>>} \cup { <<b>> : b \in Bytes }

\* The local file paths of the model, all in the directory "d".
LocalFiles == { <<"d", Slash, "f">>, <<"d", Slash, "g">> }

\* The urls of the model; both parse (http.NewRequest succeeds on them).
Urls == { <<"x", Slash, "f">>, <<"x", Slash, "g">> }

\* A file that does not exist.
Absent == <<0>>

\* path.Split / filepath.Split: the position of the final separator, 0 when
\* there is none; the directory runs up to it and the file name follows it.
LastSlash(p) ==
  LET at == { i \in 1..Len(p) : p[i] = Slash }
  IN  IF at = {} THEN 0 ELSE CHOOSE i \in at : \A j \in at : j <= i

SplitDir(p) == SubSeq(p, 1, LastSlash(p))

SplitFile(p) == SubSeq(p, LastSlash(p) + 1, Len(p))

\* filepath.Join(dir, name) followed by filepath.Clean, on a dir that is
\* clean but for a trailing separator.
Join(dir, name) ==
  LET d == IF dir # <<>> /\ dir[Len(dir)] = Slash THEN SubSeq(dir, 1, Len(dir) - 1)
           ELSE dir
  IN  IF name = <<>> THEN d
      ELSE IF d = <<>> THEN name
      ELSE d \o <<Slash>> \o name

\* sha256.Sum of a content: a digest, here of one byte, that differs for
\* different contents.
Sum256(c) == << 171 + (IF c = <<>> THEN 0 ELSE c[1]) >>

HexDigits == <<"0", "1", "2", "3", "4", "5", "6", "7", "8", "9",
               "a", "b", "c", "d", "e", "f">>

\* hex.EncodeToString: two lower-case digits per byte.
RECURSIVE EncodeToString(_)
EncodeToString(bs) ==
  IF bs = <<>> THEN <<>>
  ELSE << HexDigits[(Head(bs) \div 16) + 1], HexDigits[(Head(bs) % 16) + 1] >>
       \o EncodeToString(Tail(bs))

LowerOf(ch) ==
  CASE ch = "A" -> "a" [] ch = "B" -> "b" [] ch = "C" -> "c"
    [] ch = "D" -> "d" [] ch = "E" -> "e" [] ch = "F" -> "f"
    [] OTHER -> ch

\* strings.ToLower
ToLower(str) == [i \in DOMAIN str |-> LowerOf(str[i])]

\* The expected hashes a caller passes: the digests of the empty content and
\* of the content <<1>> in their spellings, none for the content <<2>>.
Hashes == { <<"a", "b">>, <<"a", "c">>, <<"A", "C">>, <<"a", "C">> }

\* config.Configuration, reduced to the fields Get reads.
Configurations ==
  [TLSAuth : BOOLEAN, SASToken : {<<>>, <<"t">>},
   AuthUser : {<<>>, <<"u">>}, AuthPass : {<<>>, <<"p">>}]

\* The status codes a server answers with.
Statuses == {200, 201, 204, 301, 404, 500}

\* One step inside a call: its name, and what it was given or what came of it.
Event(ev, arg) == [ev |-> ev, arg |-> arg]

None == [op |-> "none"]

\* The download package at rest: no call has been made.
DlIdle ==
  /\ downloadCfg = [TLSAuth |-> FALSE, SASToken |-> <<>>, AuthUser |-> <<>>,
                    AuthPass |-> <<>>]
  /\ fs = [f \in LocalFiles |-> Absent]
  /\ last = None
  /\ prior = None

\* A variant of StatusOK that lets every 2XX status pass.
StatusOK2XX(code) == code \in 200..299

\* part_000:158  the check that the request was successful.
StatusOK(code) == code = 200

\* part_000:132-135  the url requested: the token, when there is one, follows
\* the url after a "?".
RequestUrl(cfg, url) ==
  IF cfg.SASToken # <<>> THEN url \o <<"?">> \o cfg.SASToken ELSE url

\* A variant of RequestAuth that attaches credentials whenever a user is
\* configured.
RequestAuthAnyUser(cfg) ==
  IF cfg.AuthUser # <<>> THEN <<cfg.AuthUser, cfg.AuthPass>> ELSE <<>>

\* part_000:143-146  the basic-auth credentials the request carries, <<>> for
\* none.
RequestAuth(cfg) ==
  IF cfg.AuthUser # <<>> /\ cfg.AuthPass # <<>>
  THEN <<cfg.AuthUser, cfg.AuthPass>> ELSE <<>>

\* What Get returns when it returns no body.
NoBody == <<0>>

Result(err, body, events) == [err |-> err, body |-> body, events |-> events]

\* part_000:75-111  the client set-up under TLSAuth: the key pair is loaded,
\* the server certificates are read, and what AppendCertsFromPEM says of them
\* is not looked at.  `ok` is whether Get goes on.
TlsOutcomes(cfg) ==
  IF cfg.TLSAuth
  THEN { [ok |-> FALSE, events |-> <<Event("LoadX509KeyPair", FALSE)>>],
         [ok |-> FALSE, events |-> <<Event("LoadX509KeyPair", TRUE),
                                     Event("ReadFile", FALSE)>>] }
       \cup { [ok |-> TRUE, events |-> <<Event("LoadX509KeyPair", TRUE),
                                        Event("ReadFile", TRUE),
                                        Event("AppendCertsFromPEM", parsed)>>] :
              parsed \in BOOLEAN }
  ELSE { [ok |-> TRUE, events |-> <<>>] }

\* part_000:148-169  the request is sent; the transport fails, or a response
\* of some status and body arrives, and the body is read only when the
\* status passes.
DoOutcomes(cfg, url) ==
  LET do == Event("Do", [url |-> RequestUrl(cfg, url), auth |-> RequestAuth(cfg)])
  IN  { Result(TRUE, NoBody, <<do, Event("Response", 0)>>) }
      \cup UNION { IF StatusOK(code)
                   THEN { Result(TRUE, NoBody, <<do, Event("Response", code),
                                                 Event("ReadAll", FALSE)>>) }
                        \cup { Result(FALSE, b, <<do, Event("Response", code),
                                                  Event("ReadAll", TRUE)>>) :
                               b \in Contents }
                   ELSE { Result(TRUE, NoBody, <<do, Event("Response", code)>>) } :
                   code \in Statuses }

\* part_000:70-169  Get(url): every way the call can go.
GetOutcomes(cfg, url) ==
  UNION { IF t.ok
          THEN { Result(d.err, d.body, t.events \o d.events) : d \in DoOutcomes(cfg, url) }
          ELSE { Result(TRUE, NoBody, t.events) } :
          t \in TlsOutcomes(cfg) }

\* A variant of HashMatches that compares the expected hash as it is spelled.
HashMatchesExact(shaHash, sha) == shaHash = sha

\* part_000:185  the comparison of the file's digest with the expected hash.
HashMatches(shaHash, sha) == shaHash = ToLower(sha)

Exists(files, file) == file \in DOMAIN files /\ files[file] # Absent

\* part_000:172-190  Verify(file, sha): every way the call can go.
VerifyOutcomes(files, file, sha) ==
  IF ~Exists(files, file)
  THEN { [ret |-> FALSE, events |-> <<Event("Open", FALSE)>>] }
  ELSE { [ret |-> FALSE, events |-> <<Event("Open", FALSE)>>],
         [ret |-> FALSE, events |-> <<Event("Open", TRUE), Event("Copy", FALSE)>>],
         [ret |-> HashMatches(EncodeToString(Sum256(files[file])), sha),
          events |-> <<Event("Open", TRUE), Event("Copy", TRUE)>>] }

Prefixes(b) == { SubSeq(b, 1, n) : n \in 0..Len(b) }

FileResult(err, files, events) == [err |-> err, fs |-> files, events |-> events]

\* part_000:52-64  File after the destination was created: Get, then the
\* write of the body; a write that fails leaves a part of the body.
FetchOutcomes(files, cfg, absPath, url, events) ==
  UNION { LET ev == events \o <<Event("Get", url)>> \o g.events
          IN  IF g.err
              THEN { FileResult(TRUE, files, ev) }
              ELSE { FileResult(FALSE, [files EXCEPT ![absPath] = g.body],
                                ev \o <<Event("Write", TRUE)>>) }
                   \cup { FileResult(TRUE, [files EXCEPT ![absPath] = part],
                                     ev \o <<Event("Write", FALSE)>>) :
                          part \in Prefixes(g.body) } :
          g \in GetOutcomes(cfg, url) }

\* A variant of FileOutcomes that returns an error when the directory cannot
\* be made.
FileOutcomesStrictMkdir(files, cfg, file, url) ==
  LET absPath == Join(file, SplitFile(url))
  IN  { FileResult(TRUE, files, <<Event("MkdirAll", FALSE)>>) }
      \cup { FileResult(TRUE, files, <<Event("MkdirAll", TRUE), Event("Create", FALSE)>>) }
      \cup ( IF absPath \in DOMAIN files
             THEN FetchOutcomes([files EXCEPT ![absPath] = <<>>], cfg, absPath, url,
                                <<Event("MkdirAll", TRUE), Event("Create", TRUE)>>)
             ELSE {} )

\* part_000:34-65  File(file, url): every way the call can go.  The
\* destination is the url's file name in the directory `file`; a directory
\* that cannot be made is only logged; creating the destination empties it.
FileOutcomes(files, cfg, file, url) ==
  LET absPath == Join(file, SplitFile(url))
  IN  UNION { LET ev == <<Event("MkdirAll", made)>>
              IN  { FileResult(TRUE, files, ev \o <<Event("Create", FALSE)>>) }
                  \cup ( IF absPath \in DOMAIN files
                         THEN FetchOutcomes([files EXCEPT ![absPath] = <<>>], cfg, absPath,
                                            url, ev \o <<Event("Create", TRUE)>>)
                         ELSE {} ) :
              made \in BOOLEAN }

IfNeededResult(ret, files, events) == [ret |-> ret, fs |-> files, events |-> events]

\* A variant of Download that calls File a second time when the first call
\* returned an error.
DownloadRetrying(files, cfg, absFile, url, hash, events) ==
  UNION { LET ev == events \o <<Event("File", url)>> \o f.events
          IN  IF f.err
              THEN UNION { LET ev2 == ev \o <<Event("File", url)>> \o g.events
                           IN  IF g.err
                               THEN { IfNeededResult(FALSE, g.fs, ev2) }
                               ELSE { IfNeededResult(v.ret, g.fs,
                                                     ev2 \o <<Event("Verify", absFile)>>
                                                         \o v.events) :
                                      v \in VerifyOutcomes(g.fs, absFile, hash) } :
                           g \in FileOutcomes(f.fs, cfg, SplitDir(absFile), url) }
              ELSE { IfNeededResult(v.ret, f.fs, ev \o <<Event("Verify", absFile)>> \o v.events) :
                     v \in VerifyOutcomes(f.fs, absFile, hash) } :
          f \in FileOutcomes(files, cfg, SplitDir(absFile), url) }

\* A variant of Download that checks the file again when File returned an
\* error.
DownloadVerifiesAnyway(files, cfg, absFile, url, hash, events) ==
  UNION { LET ev == events \o <<Event("File", url)>> \o f.events
          IN  { IfNeededResult(v.ret, f.fs, ev \o <<Event("Verify", absFile)>> \o v.events) :
                v \in VerifyOutcomes(f.fs, absFile, hash) } :
          f \in FileOutcomes(files, cfg, SplitDir(absFile), url) }

\* A variant of Download that takes a File call without error for a verified
\* file.
DownloadTrusting(files, cfg, absFile, url, hash, events) ==
  { IfNeededResult(~f.err, f.fs, events \o <<Event("File", url)>> \o f.events) :
    f \in FileOutcomes(files, cfg, SplitDir(absFile), url) }

\* A variant of Download that has File write to absFile, whatever the final
\* segment of the url.
DownloadToLocalPath(files, cfg, absFile, url, hash, events) ==
  UNION { LET ev == events \o <<Event("File", url)>> \o f.events
          IN  IF f.err
              THEN { IfNeededResult(FALSE, f.fs, ev) }
              ELSE { IfNeededResult(v.ret, f.fs, ev \o <<Event("Verify", absFile)>> \o v.events) :
                     v \in VerifyOutcomes(f.fs, absFile, hash) } :
          f \in FileOutcomes(files, cfg, SplitDir(absFile),
                             SplitDir(url) \o SplitFile(absFile)) }

\* part_000:203-214  IfNeeded when the first check did not verify: one call
\* of File, and a second check when it returned no error.
Download(files, cfg, absFile, url, hash, events) ==
  UNION { LET ev == events \o <<Event("File", url)>> \o f.events
          IN  IF f.err
              THEN { IfNeededResult(FALSE, f.fs, ev) }
              ELSE { IfNeededResult(v.ret, f.fs, ev \o <<Event("Verify", absFile)>> \o v.events) :
                     v \in VerifyOutcomes(f.fs, absFile, hash) } :
          f \in FileOutcomes(files, cfg, SplitDir(absFile), url) }

\* A variant of IfNeededOutcomes that downloads without the first check.
IfNeededAlwaysDownloads(files, cfg, absFile, url, hash) ==
  Download(files, cfg, absFile, url, hash, <<>>)

\* part_000:196-218  IfNeeded(absFile, url, hash): every way the call can go.
IfNeededOutcomes(files, cfg, absFile, url, hash) ==
  IF Exists(files, absFile)
  THEN UNION { LET ev == <<Event("Verify", absFile)>> \o v.events
               IN  IF v.ret
                   THEN { IfNeededResult(TRUE, files, ev) }
                   ELSE Download(files, cfg, absFile, url, hash, ev) :
               v \in VerifyOutcomes(files, absFile, hash) }
  ELSE Download(files, cfg, absFile, url, hash, <<>>)

\* The record of a call: the operation, its arguments, what it returned, the
\* events inside it, and the file system before and after it.
Record(op, args, ret, body, events, post) ==
  [op |-> op, args |-> args, ret |-> ret, body |-> body, events |-> events,
   pre |-> fs, post |-> post]

\* A call is made by a caller that holds no result; a caller that means to
\* repeat a check makes that call, with the same arguments.
Callable(op, args) ==
  /\ last = None
  /\ prior # None => prior.op = op /\ prior.args = args

NoArg == <<>>

Args(file, url, hash) == [file |-> file, url |-> url, hash |-> hash]

\* part_000:29-31  SetConfig(cfg)
SetConfig ==
  /\ last = None
  /\ prior = None
  /\ \E cfg \in Configurations : downloadCfg' = cfg
  /\ UNCHANGED <<fs, last, prior>>
  /\ UNCHANGED mainVars

\* part_000:70  a call of Get(url)
Get ==
  /\ last = None
  /\ prior = None
  /\ \E url \in Urls : \E g \in GetOutcomes(downloadCfg, url) :
       last' = Record("Get", Args(NoArg, url, NoArg), ~g.err, g.body, g.events, fs)
  /\ UNCHANGED <<downloadCfg, fs, prior>>
  /\ UNCHANGED mainVars

\* part_000:34  a call of File(file, url)
File ==
  /\ last = None
  /\ prior = None
  /\ \E file \in {SplitDir(f) : f \in LocalFiles}, url \in Urls :
       \E o \in FileOutcomes(fs, downloadCfg, file, url) :
         /\ fs' = o.fs
         /\ last' = Record("File", Args(file, url, NoArg), ~o.err, NoBody, o.events, o.fs)
  /\ UNCHANGED <<downloadCfg, prior>>
  /\ UNCHANGED mainVars

\* part_000:172  a call of Verify(file, sha)
Verify ==
  /\ \E file \in LocalFiles, sha \in Hashes :
       /\ Callable("Verify", Args(file, NoArg, sha))
       /\ \E v \in VerifyOutcomes(fs, file, sha) :
            last' = Record("Verify", Args(file, NoArg, sha), v.ret, NoBody, v.events, fs)
  /\ UNCHANGED <<downloadCfg, fs, prior>>
  /\ UNCHANGED mainVars

\* part_000:196  a call of IfNeeded(absFile, url, hash)
IfNeeded ==
  /\ \E absFile \in LocalFiles, url \in Urls, hash \in Hashes :
       /\ Callable("IfNeeded", Args(absFile, url, hash))
       /\ \E o \in IfNeededOutcomes(fs, downloadCfg, absFile, url, hash) :
            /\ fs' = o.fs
            /\ last' = Record("IfNeeded", Args(absFile, url, hash), o.ret, NoBody,
                              o.events, o.fs)
  /\ UNCHANGED <<downloadCfg, prior>>
  /\ UNCHANGED mainVars

\* Another program writes, replaces or removes a local file between two
\* calls.
Tamper ==
  /\ last = None
  /\ \E file \in LocalFiles, c \in Contents \cup {Absent} :
       /\ fs[file] # c
       /\ fs' = [fs EXCEPT ![file] = c]
  /\ UNCHANGED <<downloadCfg, last, prior>>
  /\ UNCHANGED mainVars

\* The caller has taken the result of a check that came out true, and means
\* to make the same call again.
Keep ==
  /\ last # None
  /\ prior = None
  /\ last.op \in {"Verify", "IfNeeded"}
  /\ last.ret = TRUE
  /\ prior' = [op |-> last.op, args |-> last.args, content |-> fs[last.args.file]]
  /\ last' = None
  /\ UNCHANGED <<downloadCfg, fs>>
  /\ UNCHANGED mainVars

\* The caller has taken the result of the latest call.
Return ==
  /\ last # None
  /\ last' = None
  /\ prior' = None
  /\ UNCHANGED <<downloadCfg, fs>>
  /\ UNCHANGED mainVars

\* main() has not started: the state of the orchestrator while the download
\* package is exercised on its own.
MainIdle ==
  /\ manifests = <<>>
  /\ catalog = <<>>
  /\ installs = <<>>
  /\ uninstalls = <<>>
  /\ updates = <<>>
  /\ pc = "done"
  /\ idx = 1
  /\ dep = 1
  /\ calls = <<>>
  /\ lastErr = FALSE

Next ==
  \/ CompileEntry
  \/ InstallDependency
  \/ InstallItem
  \/ UninstallItem
  \/ UpdateItem

Init == MainInit /\ DlIdle

\* One run of main() over every catalog and manifest set of the bounds.
Spec == Init /\ [][Next]_vars

GetNext ==
  \/ SetConfig
  \/ Get
  \/ Return

GetInit == MainIdle /\ DlIdle

\* Calls of Get under every configuration.
GetSpec == GetInit /\ [][GetNext]_vars

DownloadNext ==
  \/ File
  \/ Verify
  \/ IfNeeded
  \/ Tamper
  \/ Keep
  \/ Return

\* The configurations without token and credentials, which File, Verify and
\* IfNeeded do not read.
DownloadInit ==
  /\ MainIdle
  /\ downloadCfg \in { c \in Configurations :
                         c.SASToken = <<>> /\ c.AuthUser = <<>> /\ c.AuthPass = <<>> }
  /\ fs = [f \in LocalFiles |-> Absent]
  /\ last = None
  /\ prior = None

\* Calls of File, Verify and IfNeeded, in any order, on a file system that
\* other programs write too.
DownloadSpec == DownloadInit /\ [][DownloadNext]_vars

\* ============================================================ properties
\* What the properties are stated with, defined from the inputs of the run
\* (catalog, manifests) and not from the steps of main().

\* The names of one kind (Installs, Uninstalls or Updates) of the first n
\* manifest entries, in manifest order.
RECURSIVE Flat(_, _, _)
Flat(ms, kind, n) ==
  IF n = 0 THEN <<>> ELSE Flat(ms, kind, n - 1) \o ms[n][kind]

\* The elements of a sequence that satisfy a test, in order.
Only(seq, Test(_)) ==
  LET F[i \in 0..Len(seq)] ==
        IF i = 0 THEN <<>>
        ELSE F[i - 1] \o (IF Test(seq[i]) THEN <<seq[i]>> ELSE <<>>)
  IN  F[Len(seq)]

\* A name that the catalog gives a location.
HasLocation(name) ==
  name \in DOMAIN catalog /\ catalog[name].InstallerItemLocation # ""

NonEmpty(name) == name # ""

Installable(name) == NonEmpty(name) /\ HasLocation(name)

\* The dependency list the catalog gives a name, empty for an unknown name.
DepsOf(name) == IF name \in DOMAIN catalog THEN catalog[name].Dependencies ELSE <<>>

\* The descriptor the catalog gives a name.
Descriptor(name) ==
  IF name \in DOMAIN catalog THEN catalog[name]
  ELSE [InstallerItemLocation |-> "", Dependencies |-> <<>>]

Invocation(op, name) == [op |-> op, name |-> name, item |-> Descriptor(name)]

\* The invocations of one operation among the calls made, in order.
CallsOf(op) == Only(calls, LAMBDA c : c.op = op)

\* How often x occurs in a sequence.
Count(seq, x) == Cardinality({ i \in 1..Len(seq) : seq[i] = x })

IsPrefix(a, b) == Len(a) <= Len(b) /\ a = SubSeq(b, 1, Len(a))

\* The manifest entries the compile loop is through with.
Compiled == IF pc = "compile" THEN idx - 1 ELSE Len(manifests)

\* The group of invocations of one install-list occurrence: one per
\* dependency, in the order of the dependency list, then the item.
Group(item) ==
  [i \in 1..Len(DepsOf(item)) |-> Invocation("Install", DepsOf(item)[i])]
    \o <<Invocation("Install", item)>>

RECURSIVE Groups(_)
Groups(list) == IF list = <<>> THEN <<>> ELSE Group(Head(list)) \o Groups(Tail(list))

\* C2: every occurrence of a name in the install list gives one group of
\* consecutive Install invocations, its N dependencies in list order and then
\* the item (N+1 invocations), one group after the other in install-list
\* order, a name that occurs k times giving k groups: the Install
\* invocations made are a prefix of these groups, and all of them once the
\* install loop is through.
C2_InstallGroups ==
  /\ IsPrefix(CallsOf("Install"), Groups(installs))
  /\ pc \in {"uninstall", "update", "done"} => CallsOf("Install") = Groups(installs)

\* C2 witness: a run that ended with a name twice in the install list, a
\* name with at least one dependency.
C2_Witness ==
  /\ pc = "done"
  /\ \E i, j \in 1..Len(installs) :
       /\ i < j
       /\ installs[i] = installs[j]
       /\ Len(DepsOf(installs[i])) >= 1
       /\ Len(CallsOf("Install")) = 2 * (Len(DepsOf(installs[i])) + 1)

\* C3: the install list is the Installs names of the entries compiled so
\* far, in manifest order, one per occurrence, without the empty names and
\* without the names the catalog gives no location (unknown names among
\* them).
C3_InstallList ==
  installs = Only(Flat(manifests, "Installs", Compiled), Installable)

\* C3 witness: the compile loop is through, an entry lists for install a
\* name the catalog knows without location, and another name was kept.
C3_Witness ==
  /\ pc # "compile"
  /\ installs # <<>>
  /\ \E m \in 1..Len(manifests) : \E i \in 1..Len(manifests[m].Installs) :
       LET name == manifests[m].Installs[i]
       IN  name \in DOMAIN catalog /\ catalog[name].InstallerItemLocation = ""

\* C6: the Uninstall invocations are, in flattened manifest order, one per
\* occurrence of a non-empty Uninstalls name, and the Update invocations one
\* per occurrence of a non-empty Updates name, each with the catalog's
\* descriptor of the name, whatever the catalog says of the name: a prefix
\* of them while main() runs, all of them when it is done.
C6_UninstallsAndUpdates ==
  LET expect(op, kind) ==
        [i \in 1..Len(Only(Flat(manifests, kind, Len(manifests)), NonEmpty)) |->
           Invocation(op, Only(Flat(manifests, kind, Len(manifests)), NonEmpty)[i])]
  IN  /\ IsPrefix(CallsOf("Uninstall"), expect("Uninstall", "Uninstalls"))
      /\ IsPrefix(CallsOf("Update"), expect("Update", "Updates"))
      /\ pc = "done" => /\ CallsOf("Uninstall") = expect("Uninstall", "Uninstalls")
                        /\ CallsOf("Update") = expect("Update", "Updates")

\* C6 witness: a run that ended, with an empty name among the Uninstalls and
\* one Uninstall invocation, for a name the catalog gives no location.
C6_Witness ==
  /\ pc = "done"
  /\ \E m \in 1..Len(manifests) : Count(manifests[m].Uninstalls, "") >= 1
  /\ Len(CallsOf("Uninstall")) = 1
  /\ ~HasLocation(CallsOf("Uninstall")[1].name)

\* The number of Install invocations a name is due: one per occurrence in
\* the install list and one per occurrence in the dependency list of an
\* install-list occurrence.
Due(name) ==
  LET D[i \in 0..Len(installs)] ==
        IF i = 0 THEN 0 ELSE D[i - 1] + Count(DepsOf(installs[i]), name)
  IN  Count(installs, name) + D[Len(installs)]

InstallNames == [i \in 1..Len(CallsOf("Install")) |-> CallsOf("Install")[i].name]

\* C7: dependencies are expanded one level deep: a name is installed once
\* per occurrence in the install list and once per occurrence among the
\* direct dependencies of an install-list occurrence, and not on account of
\* the dependencies of a dependency.
C7_OneLevel ==
  \A name \in Names :
    /\ Count(InstallNames, name) <= Due(name)
    /\ pc \in {"uninstall", "update", "done"} => Count(InstallNames, name) = Due(name)

\* C7 witness: a run that ended after installing A, whose dependency B lists
\* the dependency C: Install(B), Install(A), and no Install for C.
C7_Witness ==
  /\ pc = "done"
  /\ installs = <<"A">>
  /\ DepsOf("A") = <<"B">>
  /\ DepsOf("B") = <<"C">>
  /\ InstallNames = <<"B", "A">>

Rank(op) == CASE op = "Install" -> 1 [] op = "Uninstall" -> 2 [] op = "Update" -> 3

\* C8: in the calls made, every Install invocation comes before every
\* Uninstall invocation and every Uninstall invocation before every Update
\* invocation, whichever manifest entry the names come from.
C8_Order ==
  \A i, j \in 1..Len(calls) : i < j => Rank(calls[i].op) <= Rank(calls[j].op)

\* C8 witness: a run over two entries that ended, the first entry with a
\* name to uninstall, the last with a name to install, the Install
\* invocation first.
C8_Witness ==
  /\ pc = "done"
  /\ Len(manifests) = 2
  /\ Only(manifests[1].Uninstalls, NonEmpty) # <<>>
  /\ Only(manifests[2].Installs, Installable) # <<>>
  /\ Len(calls) >= 2
  /\ calls[1].op = "Install"
  /\ calls[Len(calls)].op = "Uninstall"

\* The invocations of a run, from its inputs alone.
ExpectedCalls ==
  LET all(kind) == Flat(manifests, kind, Len(manifests))
      named(op, list) == [i \in 1..Len(list) |-> Invocation(op, list[i])]
  IN  Groups(Only(all("Installs"), Installable))
        \o named("Uninstall", Only(all("Uninstalls"), NonEmpty))
        \o named("Update", Only(all("Updates"), NonEmpty))

\* C10: what the installer returns changes nothing in the invocations: once
\* the lists are compiled the calls made are a prefix of the sequence that
\* the catalog and the manifests determine, and the whole of it when main()
\* is done, whichever invocations returned an error.
C10_ErrorsIgnored ==
  /\ pc # "compile" => IsPrefix(calls, ExpectedCalls)
  /\ pc = "done" => calls = ExpectedCalls

\* C10 witness: an Install invocation returned an error and main() is
\* about to make the Uninstall invocation that follows it.
C10_Witness ==
  /\ lastErr
  /\ pc = "uninstall"
  /\ calls # <<>>
  /\ calls[Len(calls)].op = "Install"
  /\ Len(ExpectedCalls) > Len(calls)

\* C18: the names of a dependency list are not filtered: while main() is at
\* an install-list item, the latest invocations are one Install for each
\* dependency it is through with, in list order, each with the descriptor
\* the catalog gives that name, be the name empty, unknown to the catalog or
\* without location.
C18_DependenciesUnfiltered ==
  pc = "install" =>
    LET deps == DepsOf(installs[idx])
        n == dep - 1
    IN  /\ n <= Len(deps)
        /\ n <= Len(calls)
        /\ \A k \in 1..n : calls[Len(calls) - n + k] = Invocation("Install", deps[k])

\* C18 witness: a run that ended after installing A, whose dependencies are
\* the empty name and a name that would not be kept in the install list:
\* the installer was called for both, with a descriptor without location.
C18_Witness ==
  /\ pc = "done"
  /\ installs = <<"A">>
  /\ Len(DepsOf("A")) = 2
  /\ DepsOf("A")[1] = ""
  /\ DepsOf("A")[2] # ""
  /\ ~Installable(DepsOf("A")[2])
  /\ InstallNames = <<"", DepsOf("A")[2], "A">>
  /\ CallsOf("Install")[1].item.InstallerItemLocation = ""
  /\ CallsOf("Install")[2].item.InstallerItemLocation = ""

\* -------------------------------------------- properties of the download
\* package, stated on the record of the latest call.

UpperOf(ch) ==
  CASE ch = "a" -> "A" [] ch = "b" -> "B" [] ch = "c" -> "C"
    [] ch = "d" -> "D" [] ch = "e" -> "E" [] ch = "f" -> "F"
    [] OTHER -> ch

\* Two strings that are equal but for the case of their letters.
EqualFold(a, b) ==
  /\ Len(a) = Len(b)
  /\ \A i \in 1..Len(a) : UpperOf(a[i]) = UpperOf(b[i])

\* The digest of a content, as the hexadecimal string it is compared by.
HexDigest(c) == EncodeToString(Sum256(c))

\* The events of one name among the events of a call.
Happened(events, ev) == { i \in 1..Len(events) : events[i].ev = ev }

\* Whether an event of that name and outcome is among the events of a call.
Came(events, ev, arg) ==
  \E i \in 1..Len(events) : events[i].ev = ev /\ events[i].arg = arg

\* The file of the latest call was there with the expected digest when the
\* call began.
HadExpectedDigest ==
  /\ Exists(last.pre, last.args.file)
  /\ EqualFold(HexDigest(last.pre[last.args.file]), last.args.hash)

\* The first check of the latest IfNeeded opened and read the file.
FirstCheckRead ==
  /\ Len(last.events) >= 3
  /\ last.events[2].ev = "Open" /\ last.events[2].arg = TRUE
  /\ last.events[3].ev = "Copy" /\ last.events[3].arg = TRUE

\* C1 as stated: an IfNeeded call makes at most one Get; none, returning
\* true, when the file was there with the expected digest; exactly one when
\* the file was missing.
C1_AsStated ==
  last.op = "IfNeeded" =>
    /\ Cardinality(Happened(last.events, "Get")) <= 1
    /\ HadExpectedDigest =>
         Happened(last.events, "Get") = {} /\ last.ret = TRUE
    /\ ~Exists(last.pre, last.args.file) =>
         Cardinality(Happened(last.events, "Get")) = 1

\* C1, amended: an IfNeeded call makes at most one Get; none, returning
\* true, when the file was there with the expected digest and the first
\* check could read it; when the file was missing, exactly one if the
\* destination file could be created, whatever the second check says, and
\* none if it could not.
C1_AtMostOneFetch ==
  last.op = "IfNeeded" =>
    /\ Cardinality(Happened(last.events, "Get")) <= 1
    /\ HadExpectedDigest /\ FirstCheckRead =>
         Happened(last.events, "Get") = {} /\ last.ret = TRUE
    /\ ~Exists(last.pre, last.args.file) =>
         Cardinality(Happened(last.events, "Get")) =
           (IF Came(last.events, "Create", TRUE) THEN 1 ELSE 0)

\* C1 witness: IfNeeded on a missing file made one Get, wrote the body, and
\* returned false because the second check did not verify.
C1_Witness ==
  /\ last.op = "IfNeeded"
  /\ ~Exists(last.pre, last.args.file)
  /\ Cardinality(Happened(last.events, "Get")) = 1
  /\ Came(last.events, "Write", TRUE)
  /\ last.ret = FALSE

C5_VerifyIffDigest ==
  last.op = "Verify" =>
    LET file == last.args.file
        read == /\ Exists(last.pre, file)
                /\ last.events = <<Event("Open", TRUE), Event("Copy", TRUE)>>
    IN  /\ last.ret = (read /\ EqualFold(HexDigest(last.pre[file]), last.args.hash))
        /\ ( /\ prior # None
             /\ Exists(fs, file)
             /\ HexDigest(fs[file]) # HexDigest(prior.content) ) => last.ret = FALSE

\* C5 witness: a file verified against an upper-case hash, its content was
\* changed, and Verify, reading the file, returned false for the same hash.
C5_Witness ==
  /\ last.op = "Verify"
  /\ prior # None
  /\ last.args.hash = <<"A", "C">>
  /\ Exists(fs, last.args.file)
  /\ fs[last.args.file] # prior.content
  /\ last.events = <<Event("Open", TRUE), Event("Copy", TRUE)>>
  /\ last.ret = FALSE

\* C9: under TLSAuth, when the key pair cannot be loaded or the server
\* certificates cannot be read or cannot be parsed, Get returns an error and
\* sends no request.
C9_TlsMaterial ==
  ( /\ last.op = "Get"
    /\ downloadCfg.TLSAuth
    /\ \E ev \in {"LoadX509KeyPair", "ReadFile", "AppendCertsFromPEM"} :
         Came(last.events, ev, FALSE) )
  => last.ret = FALSE /\ Happened(last.events, "Do") = {}

\* The latest call repeats an IfNeeded call that returned true, with the same
\* arguments, on a file whose content is what it was when that call returned.
RepeatsOnUnchangedFile ==
  /\ last.op = "IfNeeded"
  /\ prior # None
  /\ last.pre[last.args.file] = prior.content

\* The first check of the latest IfNeeded could not open or could not read
\* the file.
FirstCheckCouldNotRead ==
  /\ Len(last.events) >= 2
  /\ last.events[1].ev = "Verify"
  /\ \/ last.events[2].ev = "Open" /\ last.events[2].arg = FALSE
     \/ /\ Len(last.events) >= 3
        /\ last.events[3].ev = "Copy" /\ last.events[3].arg = FALSE

\* C11 as stated: an IfNeeded call that repeats one that returned true, on a
\* file that was not changed since, makes no Get, changes no file and
\* returns true.
C11_AsStated ==
  RepeatsOnUnchangedFile =>
    /\ Happened(last.events, "Get") = {}
    /\ last.post = last.pre
    /\ last.ret = TRUE

\* C11, amended: an IfNeeded call that repeats one that returned true, on a
\* file that was not changed since, makes no Get, changes no file and
\* returns true, unless its check cannot open or cannot read the file.
C11_Idempotent ==
  RepeatsOnUnchangedFile /\ ~FirstCheckCouldNotRead =>
    /\ Happened(last.events, "Get") = {}
    /\ last.post = last.pre
    /\ last.ret = TRUE

\* C11 witness: the repeated call read the unchanged file and returned true
\* after the check alone.
C11_Witness ==
  /\ RepeatsOnUnchangedFile
  /\ FirstCheckRead
  /\ Len(last.events) = 3
  /\ last.ret = TRUE

\* The request of the latest call failed or was answered with a status that
\* is no success status: Get was called, and no response of a 2XX status
\* came.
RequestFailed ==
  /\ Happened(last.events, "Get") # {}
  /\ \A i \in Happened(last.events, "Response") : last.events[i].arg \notin 200..299

\* C12: when the request made by File fails or is answered with a status
\* that is no success status, File returns an error and no file is created
\* or modified.
C12_WritesOnlyOnSuccess ==
  last.op = "File" /\ RequestFailed =>
    /\ last.ret = FALSE
    /\ last.post = last.pre

\* The latest call called File, and File returned an error: the destination
\* was not created, or Get failed, or the write failed.
FileFailed ==
  /\ Happened(last.events, "File") # {}
  /\ ~Came(last.events, "Write", TRUE)

\* C13: when the first check of IfNeeded does not verify and File returns
\* an error, IfNeeded returns false at once: File was called once, Get at
\* most once, and no check follows the call of File.
C13_NoRetry ==
  last.op = "IfNeeded" /\ FileFailed =>
    /\ last.ret = FALSE
    /\ Cardinality(Happened(last.events, "File")) = 1
    /\ Cardinality(Happened(last.events, "Get")) <= 1
    /\ \A v \in Happened(last.events, "Verify") :
         \A f \in Happened(last.events, "File") : v < f

\* C13 witness: the file was there with another digest, the first check
\* read it, the server answered 500, and IfNeeded returned false.
C13_Witness ==
  /\ last.op = "IfNeeded"
  /\ Exists(last.pre, last.args.file)
  /\ FirstCheckRead
  /\ FileFailed
  /\ Came(last.events, "Response", 500)
  /\ last.ret = FALSE

\* C14: the request Get sends is for the given url followed by "?" and the
\* token exactly when a token is configured, and for the given url as it is
\* otherwise; it carries the configured user and password exactly when both
\* are configured, and no credentials otherwise.
C14_TokenAndCredentials ==
  last.op = "Get" =>
    \A i \in Happened(last.events, "Do") :
      LET req == last.events[i].arg
          token == downloadCfg.SASToken
          configured == downloadCfg.AuthUser # <<>> /\ downloadCfg.AuthPass # <<>>
      IN  /\ token # <<>> => req.url = last.args.url \o <<"?">> \o token
          /\ token = <<>> => req.url = last.args.url
          /\ configured => req.auth = <<downloadCfg.AuthUser, downloadCfg.AuthPass>>
          /\ ~configured => req.auth = <<>>

\* C14 witness: with a token and no password configured, Get sent a request
\* for the url with the token behind it, without credentials.
C14_Witness ==
  /\ last.op = "Get"
  /\ downloadCfg.SASToken = <<"t">>
  /\ downloadCfg.AuthUser = <<"u">>
  /\ downloadCfg.AuthPass = <<>>
  /\ \E i \in Happened(last.events, "Do") :
       /\ last.events[i].arg.url = last.args.url \o <<"?", "t">>
       /\ last.events[i].arg.auth = <<>>

\* The Get of the latest call returned an error: it was called and read no
\* body.
GetFailed ==
  /\ Happened(last.events, "Get") # {}
  /\ ~Came(last.events, "ReadAll", TRUE)

\* C15: File goes on to create the destination whether or not the directory
\* could be made; it returns an error exactly when creating the destination,
\* the Get or the write fails; it stops at the first of these failures, so
\* Get is not called when the destination could not be created.
C15_FileErrors ==
  last.op = "File" =>
    /\ Cardinality(Happened(last.events, "MkdirAll")) = 1
    /\ Cardinality(Happened(last.events, "Create")) = 1
    /\ last.ret = FALSE <=> \/ Came(last.events, "Create", FALSE)
                            \/ GetFailed
                            \/ Came(last.events, "Write", FALSE)
    /\ Came(last.events, "Create", FALSE) => Happened(last.events, "Get") = {}
    /\ GetFailed => Happened(last.events, "Write") = {}
    /\ \A c \in Happened(last.events, "Create"), g \in Happened(last.events, "Get") : c < g
    /\ \A g \in Happened(last.events, "Get"), w \in Happened(last.events, "Write") : g < w

\* C15 witness: the directory could not be made, the destination was
\* created all the same, and File returned no error.
C15_Witness ==
  /\ last.op = "File"
  /\ Came(last.events, "MkdirAll", FALSE)
  /\ Came(last.events, "Create", TRUE)
  /\ Came(last.events, "Write", TRUE)
  /\ last.ret = TRUE

\* The latest call ended with a check that opened and read the file.
LastCheckRead ==
  LET n == Len(last.events)
  IN  /\ n >= 3
      /\ last.events[n - 2].ev = "Verify"
      /\ last.events[n - 1].ev = "Open" /\ last.events[n - 1].arg = TRUE
      /\ last.events[n].ev = "Copy" /\ last.events[n].arg = TRUE

Destination == Join(SplitDir(last.args.file), SplitFile(last.args.url))

\* The latest call is an IfNeeded that went on to File, with a url whose
\* final segment is not the file name of localPath.
FetchedUnderOtherName ==
  /\ last.op = "IfNeeded"
  /\ Happened(last.events, "File") # {}
  /\ SplitFile(last.args.url) # SplitFile(last.args.file)

\* C17 as stated: when localPath did not verify before the fetch and the
\* final segment of the url is not its file name, IfNeeded returns false
\* and leaves the file at localPath as it was.
C17_AsStated ==
  FetchedUnderOtherName =>
    /\ last.ret = FALSE
    /\ last.post[last.args.file] = last.pre[last.args.file]

\* C17, amended: when IfNeeded fetches, the only file it changes is the one
\* named by the final segment of the url in the directory of localPath; when
\* that segment is not the file name of localPath, the file at localPath is
\* left as it was, and IfNeeded returns false if localPath was missing or
\* had another digest than the expected one before the fetch.
C17_WritesUrlName ==
  last.op = "IfNeeded" /\ Happened(last.events, "File") # {} =>
    /\ \A f \in DOMAIN last.pre : f # Destination => last.post[f] = last.pre[f]
    /\ FetchedUnderOtherName => last.post[last.args.file] = last.pre[last.args.file]
    /\ FetchedUnderOtherName /\ ~HadExpectedDigest => last.ret = FALSE

\* C17 witness: localPath was missing, the fetch under another name went
\* through and wrote a content of the expected digest, localPath is still
\* missing and IfNeeded returned false.
C17_Witness ==
  /\ FetchedUnderOtherName
  /\ ~Exists(last.pre, last.args.file)
  /\ Came(last.events, "Write", TRUE)
  /\ Exists(last.post, Destination)
  /\ EqualFold(HexDigest(last.post[Destination]), last.args.hash)
  /\ ~Exists(last.post, last.args.file)
  /\ last.ret = FALSE

====
